---- MODULE Spec2Model ----
(***************************************************************************)
(* The session core of the multiplayer tic-tac-toe server: the GameServer  *)
(* handlers (package handlers, listed in src/README.md), the rules engine  *)
(* (src/game/engine.go) and the entities (src/unnamed/part_000).           *)
(*                                                                         *)
(* One goroutine per connection runs HandleWebSocket; one goroutine runs   *)
(* handleBroadcast.  gs.mutex is a sync.RWMutex, which is not reentrant.   *)
(* A critical section that neither blocks nor calls out is one step; every *)
(* access to a Game or a Player made outside the lock is a step of its     *)
(* own, so that the interleavings of unlocked accesses are all present.    *)
(***************************************************************************)
EXTENDS Integers, Sequences, FiniteSets, TLC

\* ------------------------------------------------------------------ bounds
NConn == 3          \* connections ever accepted (each yields a fresh Player)
MaxEvents == 2      \* events from outside: messages read, peers leaving, writes failing
MaxGames == 29      \* games two rivals have finished before the one in play (LadderSpec)
NRecords == 12      \* player records in gs.players (BoardSpec)

\* --------------------------------------------------------- program constants
InitialRating == 1000
K == 32
BoardSize == 9
TopN == 10
BroadcastCap == 256
RatingDivisor == 400
XorBase == 10

None == 0
Conns == 1 .. NConn
BroadcastTask == NConn + 1
Tasks == 1 .. NConn + 1
NoGame == 0
Cells == 0 .. BoardSize - 1
Positions == -1 .. BoardSize

STATUS_WAITING == "waiting"
STATUS_PLAYING == "playing"
STATUS_FINISHED == "finished"

MSG_JOIN_QUEUE == "join_queue"
MSG_LEAVE_QUEUE == "leave_queue"
MSG_GAME_FOUND == "game_found"
MSG_MAKE_MOVE == "make_move"
MSG_GAME_UPDATE == "game_update"
MSG_GAME_END == "game_end"
MSG_ERROR == "error"
MSG_LEADERBOARD == "leaderboard"
MSG_PLAYER_UPDATE == "player_update"

\* what a client may put in the type field (any other tag behaves as game_end)
InboundTypes ==
  {MSG_JOIN_QUEUE, MSG_LEAVE_QUEUE, MSG_MAKE_MOVE, MSG_LEADERBOARD, MSG_GAME_END}

ErrNotPlaying == "game is not in playing state"
ErrInvalidPosition == "invalid position"
ErrOccupied == "position already occupied"
ErrNotInGame == "player not in this game"
ErrNotYourTurn == "not your turn"
ErrGameNotFound == "Game not found"
NoError == "nil"

VARIABLES
  clients,      \* gs.clients: connection -> player id
  players,      \* gs.players: player id -> Player
  games,        \* gs.games: game id -> Game
  matchmaking,  \* gs.matchmaking
  mutex,        \* gs.mutex: [w |-> task holding Lock or None, r |-> tasks holding RLock]
  broadcast,    \* gs.broadcast (channel contents)
  pc,           \* position of every goroutine
  loc,          \* locals of every goroutine
  closed,       \* connections on which conn.Close() has been called
  nevents,      \* events from outside so far: messages read, peers gone, writes failed
  out           \* per goroutine: what its running handler has sent so far, in order

vars == <<clients, players, games, matchmaking, mutex, broadcast, pc, loc, closed, nevents, out>>

\* ------------------------------------------------------------ entities
NewPlayer(id) ==
  [ID |-> id, Symbol |-> "", Wins |-> 0, Losses |-> 0, Draws |-> 0,
   Rating |-> InitialRating, LastSeen |-> "connect"]

NewGame(id) ==
  [ID |-> id, Board |-> [i \in Cells |-> ""], PlayerX |-> None, PlayerO |-> None,
   CurrentTurn |-> "X", Status |-> STATUS_WAITING, Winner |-> "", EndTime |-> FALSE]

\* ------------------------------------------------------------ rules engine
\* an IsValidMove that looks at the player and the turn before the cell
IsValidMoveTurnFirst(game, playerID, position) ==
  IF game.Status # STATUS_PLAYING THEN ErrNotPlaying
  ELSE IF position < 0 \/ position > 8 THEN ErrInvalidPosition
  ELSE IF playerID \notin {game.PlayerX, game.PlayerO} THEN ErrNotInGame
  ELSE IF game.CurrentTurn # (IF game.PlayerX = playerID THEN "X" ELSE "O") THEN ErrNotYourTurn
  ELSE IF game.Board[position] # "" THEN ErrOccupied
  ELSE NoError

\* an IsValidMove without the check of lines 36-38
IsValidMoveNoMembership(game, playerID, position) ==
  IF game.Status # STATUS_PLAYING THEN ErrNotPlaying
  ELSE IF position < 0 \/ position > 8 THEN ErrInvalidPosition
  ELSE IF game.Board[position] # "" THEN ErrOccupied
  ELSE IF game.CurrentTurn # (IF game.PlayerX = playerID THEN "X"
                              ELSE IF game.PlayerO = playerID THEN "O" ELSE "")
       THEN ErrNotYourTurn
  ELSE NoError

\* IsValidMove, as one call on a game nobody else is touching.
IsValidMove(game, playerID, position) ==
  IF game.Status # STATUS_PLAYING THEN ErrNotPlaying
  ELSE IF position < 0 \/ position > 8 THEN ErrInvalidPosition
  ELSE IF game.Board[position] # "" THEN ErrOccupied
  ELSE LET playerSymbol ==
             IF game.PlayerX # None /\ game.PlayerX = playerID THEN "X"
             ELSE IF game.PlayerO # None /\ game.PlayerO = playerID THEN "O"
             ELSE ""
       IN  IF playerSymbol = "" THEN ErrNotInGame
           ELSE IF game.CurrentTurn # playerSymbol THEN ErrNotYourTurn
           ELSE NoError

winningCombos ==
  << <<0, 1, 2>>, <<3, 4, 5>>, <<6, 7, 8>>,
     <<0, 3, 6>>, <<1, 4, 7>>, <<2, 5, 8>>,
     <<0, 4, 8>>, <<2, 4, 6>> >>

ComboHit(board, combo) ==
  /\ board[combo[1]] # ""
  /\ board[combo[1]] = board[combo[2]]
  /\ board[combo[2]] = board[combo[3]]

\* the first complete line in scan order decides
CheckWinner(board) ==
  LET hits == {i \in 1 .. Len(winningCombos) : ComboHit(board, winningCombos[i])}
  IN  IF hits = {} THEN ""
      ELSE LET first == CHOOSE i \in hits : \A j \in hits : i <= j
           IN  board[winningCombos[first][1]]

\* an IsBoardFull that looks at the last row only
IsBoardFullLastRow(board) == \A i \in {6, 7, 8} : board[i] # ""

IsBoardFull(board) == \A i \in Cells : board[i] # ""

GetGameStateForPlayer(game, playerID) ==
  LET mySymbol ==
        IF game.PlayerX # None /\ game.PlayerX = playerID THEN "X"
        ELSE IF game.PlayerO # None /\ game.PlayerO = playerID THEN "O"
        ELSE ""
  IN  [gameId |-> game.ID, board |-> game.Board, currentTurn |-> game.CurrentTurn,
       status |-> game.Status, winner |-> game.Winner, mySymbol |-> mySymbol,
       isMyTurn |-> (game.CurrentTurn = mySymbol /\ game.Status = STATUS_PLAYING)]

\* Go integer arithmetic: / truncates toward zero, ^ is bitwise XOR
TruncDiv(a, b) == IF a >= 0 THEN a \div b ELSE -((-a) \div b)

RECURSIVE XorNat(_, _)
XorNat(a, b) ==
  IF a = 0 THEN b
  ELSE IF b = 0 THEN a
  ELSE 2 * XorNat(a \div 2, b \div 2) + (IF (a % 2) = (b % 2) THEN 0 ELSE 1)

\* two's complement: ~y = -y - 1 and a ^ ~y = ~(a ^ y)
Xor(a, b) == IF b >= 0 THEN XorNat(a, b) ELSE -XorNat(a, -b - 1) - 1

\* int(num / den) for den # 0: conversion to int truncates toward zero
TruncRatio(num, den) ==
  IF den > 0 THEN TruncDiv(num, den) ELSE TruncDiv(-num, -den)

\* updateRating: score2 is twice the score of X (2, 0 or 1).  With
\* x = 10 ^ ((ratingO - ratingX) / 400), expectedX = 1 / (1 + x) and
\* K * (score - expectedX) = (K * score2 * (1 + x) - 2 * K) / (2 * (1 + x)).
\* A zero denominator makes expectedX +Inf and the conversion to int
\* implementation-defined; it needs a rating gap of 4400 and is kept as 0.
RatingChangeX(ratingX, ratingO, score2) ==
  LET x == Xor(XorBase, TruncDiv(ratingO - ratingX, RatingDivisor))
  IN  IF 1 + x = 0 THEN 0
      ELSE TruncRatio(K * score2 * (1 + x) - 2 * K, 2 * (1 + x))

RatingChangeO(ratingX, ratingO, score2) ==
  LET x == Xor(XorBase, TruncDiv(ratingO - ratingX, RatingDivisor))
  IN  IF 1 + x = 0 THEN 0
      ELSE TruncRatio(2 * K - K * score2 * (1 + x), 2 * (1 + x))

Floor0(r) == IF r < 0 THEN 0 ELSE r

\* ------------------------------------------------------------ helpers
\* sync.RWMutex: Lock waits for the writer and every reader to leave, RLock
\* for the writer to leave; neither knows which goroutine holds it.
CanLock == mutex.w = None /\ mutex.r = {}
CanRLock == mutex.w = None

NoLocals ==
  [type |-> "", gameID |-> NoGame, position |-> 0, playerSymbol |-> "",
   winner |-> "", changeX |-> 0, changeO |-> 0, sendTo |-> None, msg |-> "",
   data |-> <<>>, conn |-> None, todo |-> {}, ret |-> ""]

\* slice without its element i: append(q[:i], q[i+1:]...)
RemoveAt(q, i) == [j \in 1 .. Len(q) - 1 |-> IF j < i THEN q[j] ELSE q[j + 1]]

\* the loop of handleLeaveQueue and handleDisconnect: drop the first occurrence
RemoveFirst(q, id) ==
  LET at == {i \in 1 .. Len(q) : q[i] = id}
  IN  IF at = {} THEN q
      ELSE RemoveAt(q, CHOOSE i \in at : \A j \in at : i <= j)

\* a handleJoinQueue whose membership loop never matches
InQueueNever(q, id) == FALSE

InQueue(q, id) == \E i \in 1 .. Len(q) : q[i] = id

\* sort.Slice by rating descending: every order of the set S of players in
\* which no rating rises.  Map iteration and sort.Slice fix no order among
\* equal ratings, so every such order is a possible answer.
RECURSIVE SortedByRating(_, _)
SortedByRating(ps, S) ==
  IF S = {} THEN {<< >>}
  ELSE LET top == {id \in S : \A o \in S : ps[id].Rating >= ps[o].Rating}
       IN  UNION {{<<id>> \o s : s \in SortedByRating(ps, S \ {id})} : id \in top}

\* a getLeaderboard without the cut of lines 388-390
LeaderboardsUncut(ps) ==
  SortedByRating(ps, {id \in DOMAIN ps : ps[id].Wins + ps[id].Losses + ps[id].Draws > 0})

\* getLeaderboard: the players with a recorded game are collected, sorted by
\* rating descending and cut to the first TopN
Leaderboards(ps) ==
  LET elig == {id \in DOMAIN ps : ps[id].Wins + ps[id].Losses + ps[id].Draws > 0}
  IN  {IF Len(s) > TopN THEN SubSeq(s, 1, TopN) ELSE s : s \in SortedByRating(ps, elig)}

\* one record of `out` (kept for the connections' handlers): a write on
\* connection conn (ok = WriteJSON returned nil), a send to a player no
\* connection is bound to ("dropped"), or an enqueue on gs.broadcast ("broadcast")
Event(kind, conn, to, type, data, ok) ==
  [kind |-> kind, conn |-> conn, to |-> to, type |-> type, data |-> data, ok |-> ok]

\* sendToClient's outcome: WriteJSON on a closed connection fails; on an open one
\* it succeeds or (an event from outside) fails; a failed write closes the connection
WriteOutcomes(conn) ==
  IF conn \in closed THEN {FALSE}
  ELSE IF nevents < MaxEvents THEN BOOLEAN ELSE {TRUE}

AfterWrite(conn, ok) == IF ok THEN closed ELSE closed \cup {conn}

EventsAfterWrite(conn, ok) == IF ok \/ conn \in closed THEN nevents ELSE nevents + 1

\* ------------------------------------------------------------ initial state
\* NewGameServer: empty maps, empty queue, nobody connected; Run has started
\* handleBroadcast, which waits on the empty channel.
Init ==
  /\ clients = << >>
  /\ players = << >>
  /\ games = << >>
  /\ matchmaking = << >>
  /\ mutex = [w |-> None, r |-> {}]
  /\ broadcast = << >>
  /\ pc = [t \in Tasks |-> IF t = BroadcastTask THEN "handleBroadcast" ELSE "new"]
  /\ loc = [t \in Tasks |-> NoLocals]
  /\ closed = {}
  /\ nevents = 0
  /\ out = [t \in Tasks |-> << >>]

\* ------------------------------------------------------------ connection
\* HandleWebSocket up to the first send: the player is created and registered
\* under the lock, then player_update is written with the lock released.  The
\* player of connection c has identifier c.
Connect(c) ==
  /\ pc[c] = "new"
  /\ CanLock
  /\ clients' = clients @@ (c :> c)
  /\ players' = players @@ (c :> NewPlayer(c))
  /\ \E ok \in WriteOutcomes(c) :
        /\ closed' = AfterWrite(c, ok)
        /\ nevents' = EventsAfterWrite(c, ok)
        /\ out' = [out EXCEPT ![c] = <<Event("write", c, c, MSG_PLAYER_UPDATE, <<>>, ok)>>]
  /\ pc' = [pc EXCEPT ![c] = "sendLeaderboard"]
  /\ UNCHANGED <<games, matchmaking, mutex, broadcast, loc>>

\* sendLeaderboard(conn): getLeaderboard under RLock, then the write with the
\* lock released
SendLeaderboard(c) ==
  /\ pc[c] = "sendLeaderboard"
  /\ CanRLock
  /\ \E lb \in Leaderboards(players), ok \in WriteOutcomes(c) :
        /\ closed' = AfterWrite(c, ok)
        /\ nevents' = EventsAfterWrite(c, ok)
        /\ out' = [out EXCEPT ![c] = Append(@, Event("write", c, c, MSG_LEADERBOARD, lb, ok))]
  /\ pc' = [pc EXCEPT ![c] = "return"]
  /\ UNCHANGED <<clients, players, games, matchmaking, mutex, broadcast, loc>>

\* conn.ReadJSON returns a message and handleMessage runs: the player is looked
\* up under Lock, the lock is released, then the switch on the message type
HandleMessage(c) ==
  /\ pc[c] = "read"
  /\ c \notin closed
  /\ nevents < MaxEvents
  /\ CanLock
  /\ nevents' = nevents + 1
  /\ \E type \in InboundTypes :
        /\ loc' = [loc EXCEPT ![c] = [NoLocals EXCEPT !.type = type]]
        /\ pc' = [pc EXCEPT ![c] =
              IF c \notin DOMAIN clients THEN "return"
              ELSE CASE type = MSG_JOIN_QUEUE -> "handleJoinQueue"
                     [] type = MSG_LEAVE_QUEUE -> "handleLeaveQueue"
                     [] type = MSG_MAKE_MOVE -> "handleMakeMove"
                     [] type = MSG_LEADERBOARD -> "sendLeaderboard"
                     [] OTHER -> "return"]
  /\ UNCHANGED <<clients, players, games, matchmaking, mutex, broadcast, closed, out>>

\* a handler returns to the read loop of HandleWebSocket; its locals and the
\* record of what it sent end with it
Return(c) ==
  /\ pc[c] = "return"
  /\ pc' = [pc EXCEPT ![c] = "read"]
  /\ loc' = [loc EXCEPT ![c] = NoLocals]
  /\ out' = [out EXCEPT ![c] = << >>]
  /\ UNCHANGED <<clients, players, games, matchmaking, mutex, broadcast, closed, nevents>>

\* conn.ReadJSON returns an error: the connection was closed, or (an event from
\* outside) the peer left
ReadError(c) ==
  /\ pc[c] = "read"
  /\ c \in closed \/ nevents < MaxEvents
  /\ nevents' = IF c \in closed THEN nevents ELSE nevents + 1
  /\ pc' = [pc EXCEPT ![c] = "handleDisconnect"]
  /\ UNCHANGED <<clients, players, games, matchmaking, mutex, broadcast, loc, closed, out>>

\* a handleDisconnect without the loop over gs.matchmaking
HandleDisconnectKeepQueue(c) ==
  /\ pc[c] = "handleDisconnect"
  /\ CanLock
  /\ IF c \in DOMAIN clients
      THEN /\ players' = [players EXCEPT ![clients[c]].LastSeen = "disconnect"]
           /\ clients' = [k \in DOMAIN clients \ {c} |-> clients[k]]
      ELSE UNCHANGED <<players, clients>>
  /\ closed' = closed \cup {c}
  /\ pc' = [pc EXCEPT ![c] = "gone"]
  /\ UNCHANGED <<matchmaking, games, mutex, broadcast, loc, nevents, out>>

\* handleDisconnect, then the deferred conn.Close()
HandleDisconnect(c) ==
  /\ pc[c] = "handleDisconnect"
  /\ CanLock
  /\ IF c \in DOMAIN clients
      THEN /\ matchmaking' = RemoveFirst(matchmaking, clients[c])
           /\ players' = [players EXCEPT ![clients[c]].LastSeen = "disconnect"]
           /\ clients' = [k \in DOMAIN clients \ {c} |-> clients[k]]
      ELSE UNCHANGED <<matchmaking, players, clients>>
  /\ closed' = closed \cup {c}
  /\ pc' = [pc EXCEPT ![c] = "gone"]
  /\ UNCHANGED <<games, mutex, broadcast, loc, nevents, out>>

\* ------------------------------------------------------------ matchmaker
\* createMatch finds both players in gs.players, which nothing ever deletes from
MatchPlayersExist(q) == q[1] \in DOMAIN players /\ q[2] \in DOMAIN players

\* uuid.New(): an identifier no game has yet
NewGameID == Cardinality(DOMAIN games) + 1

\* a createMatch that hands X to the later joiner
MatchedGameSwapped(id, q) ==
  [NewGame(id) EXCEPT !.PlayerX = q[2], !.PlayerO = q[1], !.Status = STATUS_PLAYING]

\* the game createMatch builds from the head of the queue q
MatchedGameAs(id, q) ==
  [NewGame(id) EXCEPT !.PlayerX = q[1], !.PlayerO = q[2], !.Status = STATUS_PLAYING]

MatchedGame(q) == MatchedGameAs(NewGameID, q)

\* handleJoinQueue, with createMatch as far as its first sendToPlayer.  Lock is
\* taken here and released by the deferred Unlock, so createMatch and its sends
\* run with the write lock held by this goroutine.
HandleJoinQueue(c) ==
  /\ pc[c] = "handleJoinQueue"
  /\ CanLock
  /\ LET id == c
         q == Append(matchmaking, id)
     IN  IF InQueue(matchmaking, id)
         THEN /\ pc' = [pc EXCEPT ![c] = "return"]
              /\ loc' = [loc EXCEPT ![c].data = "already in queue"]
              /\ UNCHANGED <<matchmaking, players, games, mutex>>
         ELSE IF Len(q) < 2
         THEN /\ matchmaking' = q
              /\ pc' = [pc EXCEPT ![c] = "return"]
              /\ UNCHANGED <<players, games, mutex, loc>>
         ELSE IF ~MatchPlayersExist(q)
         THEN /\ matchmaking' = SubSeq(q, 3, Len(q))
              /\ pc' = [pc EXCEPT ![c] = "return"]
              /\ UNCHANGED <<players, games, mutex, loc>>
         ELSE /\ matchmaking' = SubSeq(q, 3, Len(q))
              /\ players' = [players EXCEPT ![q[1]].Symbol = "X", ![q[2]].Symbol = "O"]
              /\ games' = games @@ (NewGameID :> MatchedGame(q))
              /\ mutex' = [mutex EXCEPT !.w = c]
              /\ pc' = [pc EXCEPT ![c] = "sendToPlayer"]
              /\ loc' = [loc EXCEPT ![c] =
                    [@ EXCEPT !.gameID = NewGameID, !.sendTo = q[1], !.msg = MSG_GAME_FOUND,
                              !.data = GetGameStateForPlayer(MatchedGame(q), q[1]),
                              !.ret = "createMatch2"]]
  /\ UNCHANGED <<clients, broadcast, closed, nevents, out>>

\* handleLeaveQueue
HandleLeaveQueue(c) ==
  /\ pc[c] = "handleLeaveQueue"
  /\ CanLock
  /\ matchmaking' = RemoveFirst(matchmaking, c)
  /\ pc' = [pc EXCEPT ![c] = "return"]
  /\ UNCHANGED <<clients, players, games, mutex, broadcast, loc, closed, nevents, out>>

\* ------------------------------------------------------------ dispatcher
\* the connections bound to a player (at most one)
ConnsOf(playerID) == {k \in DOMAIN clients : clients[k] = playerID}

\* what the caller of sendToPlayer does when it returns:
\*   createMatch2: createMatch builds the second game_found and sends it;
\*   joinReturn:   createMatch and handleJoinQueue return, the deferred Unlock;
\*   any other:    the caller's next statement is a step of its own.
AfterSendToPlayer(t, r) ==
  CASE loc[t].ret = "createMatch2" ->
         /\ mutex' = [mutex EXCEPT !.r = r]
         /\ pc' = [pc EXCEPT ![t] = "sendToPlayer"]
         /\ loc' = [loc EXCEPT ![t] =
               [@ EXCEPT !.sendTo = games[loc[t].gameID].PlayerO, !.conn = None,
                         !.data = GetGameStateForPlayer(games[loc[t].gameID],
                                                        games[loc[t].gameID].PlayerO),
                         !.ret = "joinReturn"]]
    [] loc[t].ret = "joinReturn" ->
         /\ mutex' = [w |-> None, r |-> r]
         /\ pc' = [pc EXCEPT ![t] = "return"]
         /\ loc' = [loc EXCEPT ![t].conn = None]
    [] OTHER ->
         /\ mutex' = [mutex EXCEPT !.r = r]
         /\ pc' = [pc EXCEPT ![t] = loc[t].ret]
         /\ loc' = [loc EXCEPT ![t].conn = None]

\* sendToPlayer: RLock, then the search of gs.clients.  With a connection found
\* the goroutine goes on to write with the read lock held (RUnlock is
\* deferred); with none it logs, unlocks and returns.
SendToPlayer(t) ==
  /\ pc[t] = "sendToPlayer"
  /\ CanRLock
  /\ IF ConnsOf(loc[t].sendTo) # {}
      THEN /\ pc' = [pc EXCEPT ![t] = "sendToClient"]
           /\ \E k \in ConnsOf(loc[t].sendTo) : loc' = [loc EXCEPT ![t].conn = k]
           /\ mutex' = [mutex EXCEPT !.r = @ \cup {t}]
           /\ out' = out
      ELSE /\ out' = [out EXCEPT ![t] =
                 Append(@, Event("dropped", None, loc[t].sendTo, loc[t].msg, loc[t].data, FALSE))]
           /\ AfterSendToPlayer(t, mutex.r)
  /\ UNCHANGED <<clients, players, games, matchmaking, broadcast, closed, nevents>>

\* sendToClient called by sendToPlayer: conn.WriteJSON, conn.Close() if it fails;
\* then sendToPlayer returns and its deferred RUnlock runs
SendToClient(t) ==
  /\ pc[t] = "sendToClient"
  /\ \E ok \in WriteOutcomes(loc[t].conn) :
        /\ closed' = AfterWrite(loc[t].conn, ok)
        /\ nevents' = EventsAfterWrite(loc[t].conn, ok)
        /\ out' = [out EXCEPT ![t] =
              Append(@, Event("write", loc[t].conn, loc[t].sendTo, loc[t].msg, loc[t].data, ok))]
  /\ AfterSendToPlayer(t, mutex.r \ {t})
  /\ UNCHANGED <<clients, players, games, matchmaking, broadcast>>

\* ------------------------------------------------------------ make-move
\* handleMakeMove up to the call of MakeMove: the payload is decoded (a payload
\* without gameId or position returns at once), the game is looked up under
\* Lock, and the lock is released before the engine runs.  The position the
\* client sent is drawn where it is read: line 22 reads whether it lies in
\* 0..8 (IsValidMove18), line 26 which cell it is (IsValidMove26).
HandleMakeMove(c) ==
  /\ pc[c] = "handleMakeMove"
  /\ \/ /\ pc' = [pc EXCEPT ![c] = "return"]
        /\ loc' = loc
     \/ /\ CanLock
        /\ \E gameID \in DOMAIN games \cup {NoGame} :
              IF gameID \notin DOMAIN games
              THEN /\ pc' = [pc EXCEPT ![c] = "sendToPlayer"]
                   /\ loc' = [loc EXCEPT ![c] =
                         [@ EXCEPT !.gameID = gameID, !.sendTo = c, !.msg = MSG_ERROR,
                                   !.data = ErrGameNotFound, !.ret = "return"]]
              ELSE /\ pc' = [pc EXCEPT ![c] = "IsValidMove18"]
                   /\ loc' = [loc EXCEPT ![c].gameID = gameID]
  /\ UNCHANGED <<clients, players, games, matchmaking, mutex, broadcast, closed, nevents, out>>

\* a handleMakeMove that reports the error to the game's X player
SendErrorToX(c, reason) ==
  /\ pc' = [pc EXCEPT ![c] = "sendToPlayer"]
  /\ loc' = [loc EXCEPT ![c] =
        [@ EXCEPT !.position = 0, !.playerSymbol = "", !.sendTo = games[loc[c].gameID].PlayerX,
                  !.msg = MSG_ERROR, !.data = reason, !.ret = "return"]]

\* sendError(msg.PlayerID, err.Error()) and the return of handleMakeMove
SendError(c, reason) ==
  /\ pc' = [pc EXCEPT ![c] = "sendToPlayer"]
  /\ loc' = [loc EXCEPT ![c] =
        [@ EXCEPT !.position = 0, !.playerSymbol = "", !.sendTo = c, !.msg = MSG_ERROR,
                  !.data = reason, !.ret = "return"]]

\* The engine runs with gs.mutex released: every read and write of the Game and
\* of its Players below is a step of its own.

\* an IsValidMove that does not look at game.Status
IsValidMove18NoStatus(c) ==
  /\ pc[c] = "IsValidMove18"
  /\ \E position \in Positions :
       IF position < 0 \/ position > 8 THEN SendError(c, ErrInvalidPosition)
       ELSE /\ pc' = [pc EXCEPT ![c] = "IsValidMove26"]
            /\ loc' = loc
  /\ UNCHANGED <<clients, players, games, matchmaking, mutex, broadcast, closed, nevents, out>>

\* IsValidMove, line 18 (game.Status is read) and line 22 (the range check)
IsValidMove18(c) ==
  /\ pc[c] = "IsValidMove18"
  /\ \E position \in Positions :
       IF games[loc[c].gameID].Status # STATUS_PLAYING THEN SendError(c, ErrNotPlaying)
       ELSE IF position < 0 \/ position > 8 THEN SendError(c, ErrInvalidPosition)
       ELSE /\ pc' = [pc EXCEPT ![c] = "IsValidMove26"]
            /\ loc' = loc
  /\ UNCHANGED <<clients, players, games, matchmaking, mutex, broadcast, closed, nevents, out>>

\* IsValidMove, line 26 (the cell is read) and lines 31-38 (PlayerX and PlayerO
\* never change once the game is stored)
IsValidMove26(c) ==
  /\ pc[c] = "IsValidMove26"
  /\ \E position \in Cells :
       LET game == games[loc[c].gameID]
           playerSymbol ==
             IF game.PlayerX # None /\ game.PlayerX = c THEN "X"
             ELSE IF game.PlayerO # None /\ game.PlayerO = c THEN "O"
             ELSE ""
       IN  IF game.Board[position] # "" THEN SendError(c, ErrOccupied)
           ELSE IF playerSymbol = "" THEN SendError(c, ErrNotInGame)
           ELSE /\ pc' = [pc EXCEPT ![c] = "IsValidMove40"]
                /\ loc' = [loc EXCEPT ![c] =
                      [@ EXCEPT !.position = position, !.playerSymbol = playerSymbol]]
  /\ UNCHANGED <<clients, players, games, matchmaking, mutex, broadcast, closed, nevents, out>>

\* IsValidMove, line 40 (game.CurrentTurn is read)
IsValidMove40(c) ==
  /\ pc[c] = "IsValidMove40"
  /\ IF games[loc[c].gameID].CurrentTurn # loc[c].playerSymbol
     THEN SendError(c, ErrNotYourTurn)
     ELSE /\ pc' = [pc EXCEPT ![c] = "MakeMove54"]
          /\ loc' = loc
  /\ UNCHANGED <<clients, players, games, matchmaking, mutex, broadcast, closed, nevents, out>>

\* the write of line 54
WriteCell(game, position) == [game EXCEPT !.Board[position] = game.CurrentTurn]

\* MakeMove, line 54: game.Board[position] = game.CurrentTurn
MakeMove54(c) ==
  /\ pc[c] = "MakeMove54"
  /\ games' = [games EXCEPT ![loc[c].gameID] = WriteCell(@, loc[c].position)]
  /\ pc' = [pc EXCEPT ![c] = "MakeMove57"]
  /\ UNCHANGED <<clients, players, matchmaking, mutex, broadcast, loc, closed, nevents, out>>

\* MakeMove, lines 57-66: CheckWinner and IsBoardFull on the board as it is now
MakeMove57(c) ==
  /\ pc[c] = "MakeMove57"
  /\ LET board == games[loc[c].gameID].Board
         winner == CheckWinner(board)
     IN  IF winner # ""
         THEN /\ pc' = [pc EXCEPT ![c] = "MakeMoveStatus"]
              /\ loc' = [loc EXCEPT ![c].winner = winner]
         ELSE IF IsBoardFull(board)
         THEN /\ pc' = [pc EXCEPT ![c] = "MakeMoveStatus"]
              /\ loc' = [loc EXCEPT ![c].winner = "draw"]
         ELSE /\ pc' = [pc EXCEPT ![c] = "MakeMove68"]
              /\ loc' = loc
  /\ UNCHANGED <<clients, players, games, matchmaking, mutex, broadcast, closed, nevents, out>>

\* MakeMove, line 59 or 63: game.Status = STATUS_FINISHED
MakeMoveStatus(c) ==
  /\ pc[c] = "MakeMoveStatus"
  /\ games' = [games EXCEPT ![loc[c].gameID].Status = STATUS_FINISHED]
  /\ pc' = [pc EXCEPT ![c] = "MakeMoveWinner"]
  /\ UNCHANGED <<clients, players, matchmaking, mutex, broadcast, loc, closed, nevents, out>>

\* MakeMove, line 60 or 64: game.Winner = winner
MakeMoveWinner(c) ==
  /\ pc[c] = "MakeMoveWinner"
  /\ games' = [games EXCEPT ![loc[c].gameID].Winner = loc[c].winner]
  /\ pc' = [pc EXCEPT ![c] = "updatePlayerStats1"]
  /\ UNCHANGED <<clients, players, matchmaking, mutex, broadcast, loc, closed, nevents, out>>

\* the turn after line 68-72
FlipTurn(turn) == IF turn = "X" THEN "O" ELSE "X"

\* MakeMove, lines 68-72: the turn is switched
MakeMove68(c) ==
  /\ pc[c] = "MakeMove68"
  /\ games' = [games EXCEPT ![loc[c].gameID].CurrentTurn = FlipTurn(@)]
  /\ pc' = [pc EXCEPT ![c] = "sendGameUpdate"]
  /\ UNCHANGED <<clients, players, matchmaking, mutex, broadcast, loc, closed, nevents, out>>

\* updatePlayerStats: the first counter of the switch on game.Winner
\* (PlayerX.Wins++, PlayerO.Wins++ or PlayerX.Draws++)
StatsFirst(ps, game) ==
  CASE game.Winner = "X" -> [ps EXCEPT ![game.PlayerX].Wins = @ + 1]
    [] game.Winner = "O" -> [ps EXCEPT ![game.PlayerO].Wins = @ + 1]
    [] game.Winner = "draw" -> [ps EXCEPT ![game.PlayerX].Draws = @ + 1]
    [] OTHER -> ps

\* an updatePlayerStats that forgets the second counter
StatsSecondNone(ps, game) == ps

\* updatePlayerStats: the second counter (PlayerO.Losses++, PlayerX.Losses++ or
\* PlayerO.Draws++)
StatsSecond(ps, game) ==
  CASE game.Winner = "X" -> [ps EXCEPT ![game.PlayerO].Losses = @ + 1]
    [] game.Winner = "O" -> [ps EXCEPT ![game.PlayerX].Losses = @ + 1]
    [] game.Winner = "draw" -> [ps EXCEPT ![game.PlayerO].Draws = @ + 1]
    [] OTHER -> ps

\* twice the score updatePlayerStats passes to updateRating
Score2(winner) == IF winner = "X" THEN 2 ELSE IF winner = "O" THEN 0 ELSE 1

HasOutcome(game) == game.Winner \in {"X", "O", "draw"}

UpdatePlayerStats1(c) ==
  /\ pc[c] = "updatePlayerStats1"
  /\ LET game == games[loc[c].gameID]
     IN  IF game.PlayerX = None \/ game.PlayerO = None \/ ~HasOutcome(game)
         THEN /\ players' = players
              /\ pc' = [pc EXCEPT ![c] = "sendGameUpdate"]
         ELSE /\ players' = StatsFirst(players, game)
              /\ pc' = [pc EXCEPT ![c] = "updatePlayerStats2"]
  /\ UNCHANGED <<clients, games, matchmaking, mutex, broadcast, loc, closed, nevents, out>>

UpdatePlayerStats2(c) ==
  /\ pc[c] = "updatePlayerStats2"
  /\ players' = StatsSecond(players, games[loc[c].gameID])
  /\ pc' = [pc EXCEPT ![c] = "updateRating134"]
  /\ UNCHANGED <<clients, games, matchmaking, mutex, broadcast, loc, closed, nevents, out>>

\* updateRating, lines 134-137: both ratings are read, both changes computed
UpdateRating134(c) ==
  /\ pc[c] = "updateRating134"
  /\ pc' = [pc EXCEPT ![c] = "updateRating139"]
  /\ LET game == games[loc[c].gameID]
         rx == players[game.PlayerX].Rating
         ro == players[game.PlayerO].Rating
     IN  loc' = [loc EXCEPT ![c] =
           [@ EXCEPT !.changeX = RatingChangeX(rx, ro, Score2(game.Winner)),
                     !.changeO = RatingChangeO(rx, ro, Score2(game.Winner))]]
  /\ UNCHANGED <<clients, players, games, matchmaking, mutex, broadcast, closed, nevents, out>>

\* updateRating, line 139: playerX.Rating += ratingChangeX
UpdateRating139(c) ==
  /\ pc[c] = "updateRating139"
  /\ players' = [players EXCEPT ![games[loc[c].gameID].PlayerX].Rating = @ + loc[c].changeX]
  /\ pc' = [pc EXCEPT ![c] = "updateRating140"]
  /\ UNCHANGED <<clients, games, matchmaking, mutex, broadcast, loc, closed, nevents, out>>

\* updateRating, line 140: playerO.Rating += ratingChangeO
UpdateRating140(c) ==
  /\ pc[c] = "updateRating140"
  /\ players' = [players EXCEPT ![games[loc[c].gameID].PlayerO].Rating = @ + loc[c].changeO]
  /\ pc' = [pc EXCEPT ![c] = "updateRating143"]
  /\ UNCHANGED <<clients, games, matchmaking, mutex, broadcast, loc, closed, nevents, out>>

\* updateRating, lines 143-148: both ratings are floored at 0
UpdateRating143(c) ==
  /\ pc[c] = "updateRating143"
  /\ players' = [players EXCEPT ![games[loc[c].gameID].PlayerX].Rating = Floor0(@),
                                ![games[loc[c].gameID].PlayerO].Rating = Floor0(@)]
  /\ pc' = [pc EXCEPT ![c] = "sendGameUpdate"]
  /\ loc' = [loc EXCEPT ![c] = [@ EXCEPT !.changeX = 0, !.changeO = 0]]
  /\ UNCHANGED <<clients, games, matchmaking, mutex, broadcast, closed, nevents, out>>

\* sendGameUpdate, lines 288-294: the view of PlayerX is built from the game as it
\* is now and sent
SendGameUpdate(c) ==
  /\ pc[c] = "sendGameUpdate"
  /\ LET game == games[loc[c].gameID]
     IN  IF game.PlayerX # None
         THEN /\ pc' = [pc EXCEPT ![c] = "sendToPlayer"]
              /\ loc' = [loc EXCEPT ![c] =
                    [@ EXCEPT !.position = 0, !.playerSymbol = "", !.winner = "",
                              !.sendTo = game.PlayerX, !.msg = MSG_GAME_UPDATE,
                              !.data = GetGameStateForPlayer(game, game.PlayerX),
                              !.ret = "sendGameUpdate297"]]
         ELSE /\ pc' = [pc EXCEPT ![c] = "sendGameUpdate297"]
              /\ loc' = loc
  /\ UNCHANGED <<clients, players, games, matchmaking, mutex, broadcast, closed, nevents, out>>

\* sendGameUpdate, lines 297-304: the view of PlayerO, built after the first send
SendGameUpdate297(c) ==
  /\ pc[c] = "sendGameUpdate297"
  /\ LET game == games[loc[c].gameID]
     IN  IF game.PlayerO # None
         THEN /\ pc' = [pc EXCEPT ![c] = "sendToPlayer"]
              /\ loc' = [loc EXCEPT ![c] =
                    [@ EXCEPT !.sendTo = game.PlayerO, !.msg = MSG_GAME_UPDATE,
                              !.data = GetGameStateForPlayer(game, game.PlayerO),
                              !.ret = "handleMakeMove279"]]
         ELSE /\ pc' = [pc EXCEPT ![c] = "handleMakeMove279"]
              /\ loc' = loc
  /\ UNCHANGED <<clients, players, games, matchmaking, mutex, broadcast, closed, nevents, out>>

\* handleMakeMove, lines 279-281: the status is read; a finished game gets its EndTime
HandleMakeMove279(c) ==
  /\ pc[c] = "handleMakeMove279"
  /\ IF games[loc[c].gameID].Status = STATUS_FINISHED
     THEN /\ games' = [games EXCEPT ![loc[c].gameID].EndTime = TRUE]
          /\ pc' = [pc EXCEPT ![c] = "broadcastLeaderboard"]
     ELSE /\ games' = games
          /\ pc' = [pc EXCEPT ![c] = "return"]
  /\ UNCHANGED <<clients, players, matchmaking, mutex, broadcast, loc, closed, nevents, out>>

\* broadcastLeaderboard: getLeaderboard under RLock, then the send on gs.broadcast,
\* which waits while the channel is full
BroadcastLeaderboard(c) ==
  /\ pc[c] = "broadcastLeaderboard"
  /\ CanRLock
  /\ Len(broadcast) < BroadcastCap
  /\ \E lb \in Leaderboards(players) :
        /\ broadcast' = Append(broadcast, [type |-> MSG_LEADERBOARD, data |-> lb])
        /\ out' = [out EXCEPT ![c] =
              Append(@, Event("broadcast", None, None, MSG_LEADERBOARD, lb, TRUE))]
  /\ pc' = [pc EXCEPT ![c] = "return"]
  /\ UNCHANGED <<clients, players, games, matchmaking, mutex, loc, closed, nevents>>

\* ------------------------------------------------------------ broadcast loop
\* handleBroadcast: a message is taken from the channel and RLock is taken; the
\* range over gs.clients then runs with the read lock held
HandleBroadcast ==
  /\ pc[BroadcastTask] = "handleBroadcast"
  /\ broadcast # << >>
  /\ CanRLock
  /\ broadcast' = Tail(broadcast)
  /\ mutex' = [mutex EXCEPT !.r = @ \cup {BroadcastTask}]
  /\ pc' = [pc EXCEPT ![BroadcastTask] = "handleBroadcast400"]
  /\ loc' = [loc EXCEPT ![BroadcastTask] =
        [@ EXCEPT !.msg = Head(broadcast).type, !.data = Head(broadcast).data,
                  !.todo = DOMAIN clients]]
  /\ UNCHANGED <<clients, players, games, matchmaking, closed, nevents, out>>

\* handleBroadcast, line 400: sendToClient on the next connection of the range, in
\* no particular order; after the last one, RUnlock
HandleBroadcast400 ==
  /\ pc[BroadcastTask] = "handleBroadcast400"
  /\ IF loc[BroadcastTask].todo # {}
     THEN \E k \in loc[BroadcastTask].todo : \E ok \in WriteOutcomes(k) :
            /\ closed' = AfterWrite(k, ok)
            /\ nevents' = EventsAfterWrite(k, ok)
            /\ UNCHANGED <<mutex, pc>>
            /\ loc' = [loc EXCEPT ![BroadcastTask].todo = @ \ {k}]
     ELSE /\ mutex' = [mutex EXCEPT !.r = @ \ {BroadcastTask}]
          /\ pc' = [pc EXCEPT ![BroadcastTask] = "handleBroadcast"]
          /\ loc' = [loc EXCEPT ![BroadcastTask] = NoLocals]
          /\ UNCHANGED <<closed, nevents>>
  /\ UNCHANGED <<clients, players, games, matchmaking, broadcast, out>>

Engine(c) ==
  \/ IsValidMove18(c)
  \/ IsValidMove26(c)
  \/ IsValidMove40(c)
  \/ MakeMove54(c)
  \/ MakeMove57(c)
  \/ MakeMoveStatus(c)
  \/ MakeMoveWinner(c)
  \/ MakeMove68(c)
  \/ UpdatePlayerStats1(c)
  \/ UpdatePlayerStats2(c)
  \/ UpdateRating134(c)
  \/ UpdateRating139(c)
  \/ UpdateRating140(c)
  \/ UpdateRating143(c)
  \/ SendGameUpdate(c)
  \/ SendGameUpdate297(c)
  \/ HandleMakeMove279(c)
  \/ BroadcastLeaderboard(c)

\* ------------------------------------------------------------ the server
Handlers(c) ==
  \/ SendLeaderboard(c)
  \/ HandleMessage(c)
  \/ Return(c)
  \/ HandleJoinQueue(c)
  \/ HandleLeaveQueue(c)
  \/ HandleMakeMove(c)
  \/ SendToPlayer(c)
  \/ SendToClient(c)
  \/ ReadError(c)
  \/ HandleDisconnect(c)

\* The server from its start.  createMatch never returns: its sendToPlayer waits
\* for the lock its caller handleJoinQueue still holds.  After the first match no
\* handler gets the lock again, so the engine's steps are no steps of this
\* specification.
Next == \E c \in Conns : Connect(c) \/ Handlers(c)

Spec == Init /\ [][Next]_vars

\* ------------------------------------------------------------ a game in play
\* the moves already played, in order, when the game is taken up
Script == <<0, 1, 2, 4, 3, 5, 7, 6>>

\* MakeMove as one uninterrupted call, on the game alone
MakeMoveGame(game, playerID, position) ==
  IF IsValidMove(game, playerID, position) # NoError THEN game
  ELSE LET g1 == WriteCell(game, position)
           winner == CheckWinner(g1.Board)
       IN  IF winner # "" THEN [g1 EXCEPT !.Status = STATUS_FINISHED, !.Winner = winner]
           ELSE IF IsBoardFull(g1.Board)
           THEN [g1 EXCEPT !.Status = STATUS_FINISHED, !.Winner = "draw"]
           ELSE [g1 EXCEPT !.CurrentTurn = FlipTurn(@)]

Mover(game) == IF game.CurrentTurn = "X" THEN game.PlayerX ELSE game.PlayerO

RECURSIVE Played(_, _)
Played(game, k) ==
  IF k = 0 THEN game
  ELSE LET g == Played(game, k - 1) IN MakeMoveGame(g, Mover(g), Script[k])

\* Every connection has been accepted.  Connections 1 and 2 have joined the
\* queue and hold game 1 as X and O; the game stands after some prefix of
\* Script, each move handled to its end; nobody holds the lock.
InitPlay ==
  /\ clients = [c \in Conns |-> c]
  /\ players = [c \in Conns |->
        [NewPlayer(c) EXCEPT !.Symbol = IF c = 1 THEN "X" ELSE IF c = 2 THEN "O" ELSE ""]]
  /\ \E k \in 0 .. Len(Script) : games = (1 :> Played(MatchedGameAs(1, <<1, 2>>), k))
  /\ matchmaking = << >>
  /\ mutex = [w |-> None, r |-> {}]
  /\ broadcast = << >>
  /\ pc = [t \in Tasks |-> IF t = BroadcastTask THEN "handleBroadcast" ELSE "read"]
  /\ loc = [t \in Tasks |-> NoLocals]
  /\ closed = {}
  /\ nevents = 0
  /\ out = [t \in Tasks |-> << >>]

NextPlay ==
  \/ \E c \in Conns : Handlers(c) \/ Engine(c)
  \/ HandleBroadcast
  \/ HandleBroadcast400

PlaySpec == InitPlay /\ [][NextPlay]_vars

\* ------------------------------------------------------------ the engine alone
\* updatePlayerStats as one uninterrupted call
UpdatePlayerStats(ps, game) ==
  IF game.PlayerX = None \/ game.PlayerO = None \/ ~HasOutcome(game) THEN ps
  ELSE LET p2 == StatsSecond(StatsFirst(ps, game), game)
           rx == p2[game.PlayerX].Rating
           ro == p2[game.PlayerO].Rating
       IN  [p2 EXCEPT
              ![game.PlayerX].Rating = Floor0(rx + RatingChangeX(rx, ro, Score2(game.Winner))),
              ![game.PlayerO].Rating = Floor0(ro + RatingChangeO(rx, ro, Score2(game.Winner)))]

\* gameEngine.MakeMove(game, playerID, position) called with nothing else running:
\* the error it returns is kept in loc[c].data, the position in loc[c].position
EngineMakeMove(c) ==
  /\ \A t \in Conns : pc[t] = "read"
  /\ \E position \in Positions :
       LET game == games[1]
           err == IsValidMove(game, c, position)
           after == MakeMoveGame(game, c, position)
       IN  /\ games' = [games EXCEPT ![1] = after]
           /\ players' = IF err = NoError /\ after.Status = STATUS_FINISHED
                          THEN UpdatePlayerStats(players, after) ELSE players
           /\ loc' = [loc EXCEPT ![c] =
                 [NoLocals EXCEPT !.type = MSG_MAKE_MOVE, !.gameID = 1,
                                  !.position = position, !.data = err]]
  /\ pc' = [pc EXCEPT ![c] = "return"]
  /\ UNCHANGED <<clients, matchmaking, mutex, broadcast, closed, nevents, out>>

\* A game between players 1 (X) and 2 (O), just created; player 3 is in no game.
InitEngine ==
  /\ clients = [c \in Conns |-> c]
  /\ players = [c \in Conns |->
        [NewPlayer(c) EXCEPT !.Symbol = IF c = 1 THEN "X" ELSE IF c = 2 THEN "O" ELSE ""]]
  /\ games = (1 :> MatchedGameAs(1, <<1, 2>>))
  /\ matchmaking = << >>
  /\ mutex = [w |-> None, r |-> {}]
  /\ broadcast = << >>
  /\ pc = [t \in Tasks |-> IF t = BroadcastTask THEN "handleBroadcast" ELSE "read"]
  /\ loc = [t \in Tasks |-> NoLocals]
  /\ closed = {}
  /\ nevents = 0
  /\ out = [t \in Tasks |-> << >>]

NextEngine == \E c \in Conns : EngineMakeMove(c) \/ Return(c)

EngineSpec == InitEngine /\ [][NextEngine]_vars

\* ============================================================ properties
HoldsLock(t) == mutex.w = t \/ t \in mutex.r

\* a goroutine inside conn.WriteJSON
Writing(t) ==
  \/ pc[t] = "sendToClient"
  \/ pc[t] = "handleBroadcast400" /\ loc[t].todo # {}

\* C1: no goroutine holds gs.mutex (read or write) while it performs a network
\* write.  The code violates it: sendToPlayer and handleBroadcast write with
\* RLock held.
C1_NoLockDuringWrite == \A t \in Tasks : Writing(t) => ~HoldsLock(t)

JoinStep(c) == pc[c] = "handleJoinQueue" /\ pc'[c] # pc[c]

Waiting(c) == \E i \in 1 .. Len(matchmaking) : matchmaking[i] = c

\* C3: a join that brings the waiting list to two or more entries removes exactly
\* the two earliest entries, in order, and stores one new game for them: playing,
\* empty board, X to move, the earlier joiner X and the later one O; the other
\* entries keep their order and every other game is untouched.
C3_FifoMatch ==
  [][\A c \in Conns :
       (JoinStep(c) /\ ~Waiting(c) /\ Len(matchmaking) >= 1) =>
         LET q == matchmaking \o <<c>>
         IN  /\ matchmaking' = SubSeq(q, 3, Len(q))
             /\ Cardinality(DOMAIN games' \ DOMAIN games) = 1
             /\ \A g \in DOMAIN games : g \in DOMAIN games' /\ games'[g] = games[g]
             /\ \A g \in DOMAIN games' \ DOMAIN games :
                   /\ games'[g].PlayerX = q[1]
                   /\ games'[g].PlayerO = q[2]
                   /\ games'[g].Status = STATUS_PLAYING
                   /\ games'[g].CurrentTurn = "X"
                   /\ \A i \in Cells : games'[g].Board[i] = ""]_vars

\* C3's case: a match has just been made and its first game_found is on its way
C3_Witness ==
  \E c \in Conns :
    /\ pc[c] = "sendToPlayer"
    /\ loc[c].msg = MSG_GAME_FOUND
    /\ loc[c].gameID \in DOMAIN games
    /\ games[loc[c].gameID].PlayerO = c

\* C4: the waiting list never holds an identifier twice, and a join by a player
\* who is already waiting leaves the list as it is.
C4_NoDuplicates ==
  /\ [](\A i, j \in 1 .. Len(matchmaking) : i # j => matchmaking[i] # matchmaking[j])
  /\ [][\A c \in Conns : (JoinStep(c) /\ Waiting(c)) => matchmaking' = matchmaking]_vars

\* C4's case: a player who is waiting has sent join_queue again and was turned away
C4_Witness ==
  \E c \in Conns :
    /\ pc[c] = "return"
    /\ loc[c].type = MSG_JOIN_QUEUE
    /\ loc[c].data = "already in queue"
    /\ matchmaking = <<c>>

\* the step in which the engine is called for player c on game 1
EngineStep(c) == pc[c] = "read" /\ pc'[c] = "return"

Outsider(game, p) == p # game.PlayerX /\ p # game.PlayerO

\* the five rule violations in the order of the contract; the cell is looked
\* at only for a position on the board
Violations(game, p, position) ==
  << game.Status # STATUS_PLAYING,
     position \notin Cells,
     position \in Cells /\ game.Board[position] # "",
     Outsider(game, p),
     ~Outsider(game, p) /\ game.CurrentTurn # (IF p = game.PlayerX THEN "X" ELSE "O") >>

ViolationNames == <<ErrNotPlaying, ErrInvalidPosition, ErrOccupied, ErrNotInGame, ErrNotYourTurn>>

FirstViolation(game, p, position) ==
  LET v == Violations(game, p, position)
      hit == {i \in 1 .. Len(v) : v[i]}
  IN  IF hit = {} THEN NoError
      ELSE ViolationNames[CHOOSE i \in hit : \A j \in hit : i <= j]

\* C5: the engine reports the earliest violation in the order NotPlaying,
\* OutOfRange, CellOccupied, PlayerNotInGame, NotYourTurn, and succeeds exactly
\* when none of the five holds.
C5_Precedence ==
  [][\A c \in Conns :
       EngineStep(c) => loc'[c].data = FirstViolation(games[1], c, loc'[c].position)]_vars

\* C5's case: a player of neither side aims at an occupied cell of a game in
\* play, two violations at once, and hears of the earlier one
C5_Witness ==
  \E c \in Conns :
    /\ pc[c] = "return"
    /\ Outsider(games[1], c)
    /\ games[1].Status = STATUS_PLAYING
    /\ loc[c].data = ErrOccupied

\* C6 as stated: a move by a player who is neither X nor O of the game is
\* rejected with PlayerNotInGame, whatever the game's state and the position,
\* and the board stays as it is.
C6_OutsiderAlwaysNotInGame ==
  [][\A c \in Conns :
       (EngineStep(c) /\ Outsider(games[1], c)) =>
          /\ loc'[c].data = ErrNotInGame
          /\ games'[1].Board = games[1].Board]_vars

\* C6 amended: a move by a player who is neither X nor O of the game is always
\* rejected and leaves the game as it is; the error is PlayerNotInGame exactly
\* when the game is playing, the position lies in 0..8 and the cell is empty
\* (otherwise NotPlaying, OutOfRange or CellOccupied comes first).
C6_OutsiderRejected ==
  [][\A c \in Conns :
       (EngineStep(c) /\ Outsider(games[1], c)) =>
          /\ loc'[c].data # NoError
          /\ games' = games
          /\ players' = players
          /\ loc'[c].data = ErrNotInGame <=>
                /\ games[1].Status = STATUS_PLAYING
                /\ loc'[c].position \in Cells
                /\ games[1].Board[loc'[c].position] = ""]_vars

\* C6's case: the outsider aimed at an empty cell of a game under way
C6_Witness ==
  \E c \in Conns :
    /\ pc[c] = "return"
    /\ Outsider(games[1], c)
    /\ loc[c].data = ErrNotInGame
    /\ \E i \in Cells : games[1].Board[i] # ""

\* connection c is in a make-move that has not (yet) been accepted: the lookup,
\* the validation, or the delivery of the error
Rejecting(c) ==
  /\ loc[c].type = MSG_MAKE_MOVE
  /\ \/ pc[c] \in {"handleMakeMove", "IsValidMove18", "IsValidMove26", "IsValidMove40"}
     \/ pc[c] \in {"sendToPlayer", "sendToClient"} /\ loc[c].msg = MSG_ERROR

\* the handler of c has ended a make-move with an error
Rejected(c) == pc[c] = "return" /\ loc[c].type = MSG_MAKE_MOVE /\ loc[c].msg = MSG_ERROR

\* C7: no step of a rejected make-move changes a game, a player, the waiting
\* list, the connection registry or the broadcast channel; when the handler ends
\* it has produced exactly one message, an error written to the submitter's own
\* connection, which is still registered.
C7_RejectedChangesNothing ==
  /\ [][\A c \in Conns :
          (Rejecting(c) /\ pc'[c] # pc[c]) =>
             UNCHANGED <<games, players, matchmaking, clients, broadcast>>]_vars
  /\ [](\A c \in Conns :
          Rejected(c) =>
             /\ Len(out[c]) = 1
             /\ out[c][1].kind = "write"
             /\ out[c][1].type = MSG_ERROR
             /\ out[c][1].to = c
             /\ out[c][1].conn = c
             /\ c \in DOMAIN clients
             /\ clients[c] = c)

\* C7's case: a move out of turn has been turned away
C7_Witness == \E c \in Conns : Rejected(c) /\ loc[c].data = ErrNotYourTurn

Rank(status) ==
  CASE status = STATUS_WAITING -> 0
    [] status = STATUS_PLAYING -> 1
    [] status = STATUS_FINISHED -> 2

\* C8: no step lowers a game's status, and no step changes the board, the turn
\* or the status of a finished game; its winner is written once, by the call
\* that finished it (line 60 or 64), and never changes afterwards.
C8_ForwardOnly ==
  [][\A g \in DOMAIN games :
       /\ g \in DOMAIN games'
       /\ Rank(games'[g].Status) >= Rank(games[g].Status)
       /\ games[g].Status = STATUS_FINISHED =>
             /\ games'[g].Board = games[g].Board
             /\ games'[g].CurrentTurn = games[g].CurrentTurn
             /\ games'[g].Winner # games[g].Winner =>
                   /\ games[g].Winner = ""
                   /\ \E c \in Conns :
                         /\ pc[c] = "MakeMoveWinner"
                         /\ pc'[c] # pc[c]
                         /\ loc[c].gameID = g]_vars

\* C8's case: a move sent to a game that is over has been refused
C8_Witness ==
  \E c \in Conns :
    /\ Rejected(c)
    /\ loc[c].data = ErrNotPlaying
    /\ games[loc[c].gameID].Status = STATUS_FINISHED
    /\ games[loc[c].gameID].Winner # ""

PlayersOf(g) == {games[g].PlayerX, games[g].PlayerO}

Finished(g) == games[g].Status = STATUS_FINISHED

\* a call of MakeMove stands between the write of Status and the end of
\* updatePlayerStats' counters, or of updateRating, for game g
SettlingCounters(g) ==
  \E c \in Conns :
    /\ loc[c].gameID = g
    /\ pc[c] \in {"MakeMoveWinner", "updatePlayerStats1", "updatePlayerStats2"}

SettlingRatings(g) ==
  \/ SettlingCounters(g)
  \/ \E c \in Conns :
       /\ loc[c].gameID = g
       /\ pc[c] \in {"updateRating134", "updateRating139", "updateRating140", "updateRating143"}

WonBy(g) ==
  IF games[g].Winner = "X" THEN games[g].PlayerX
  ELSE IF games[g].Winner = "O" THEN games[g].PlayerO ELSE None

LostBy(g) ==
  IF games[g].Winner = "X" THEN games[g].PlayerO
  ELSE IF games[g].Winner = "O" THEN games[g].PlayerX ELSE None

\* one settlement of game g on players who never played before
SettledOnce(g) == UpdatePlayerStats([p \in DOMAIN players |-> NewPlayer(p)], games[g])

C11_EqualRatingsElo ==
  Finished(1) =>
    LET gain == IF games[1].Winner = "X" THEN K \div 2
                ELSE IF games[1].Winner = "O" THEN -(K \div 2) ELSE 0
    IN  /\ players[games[1].PlayerX].Rating = InitialRating + gain
        /\ players[games[1].PlayerO].Rating = InitialRating - gain

\* ------------------------------------------------------------ a long rivalry
\* the moves of Script after which X wins by taking cell 6
WinPrefix == 6

\* the game with identifier id between players 1 (X) and 2 (O), X about to win
GameBeforeWin(id) == Played(MatchedGameAs(id, <<1, 2>>), WinPrefix)

\* the same game after X has taken the cell that completes 0-3-6 (the last of
\* Script) and handleMakeMove has stamped the end time
GameWonByX(id) ==
  [MakeMoveGame(GameBeforeWin(id), 1, Script[Len(Script)]) EXCEPT !.EndTime = TRUE]

\* gs.players after the games lo .. hi between players 1 and 2, all won by X,
\* have been settled one after the other on ps (a settlement adds no player)
RECURSIVE Settled(_, _, _)
Settled(ps, lo, hi) ==
  IF lo > hi THEN ps
  ELSE LET next == UpdatePlayerStats(ps, GameWonByX(lo))
       IN  IF DOMAIN next = DOMAIN ps THEN Settled(next, lo + 1, hi) ELSE next

\* gs.players after players 1 and 2 have played n games, all won by X
Ladder(n) ==
  Settled([c \in Conns |->
             [NewPlayer(c) EXCEPT !.Symbol = IF c = 1 THEN "X" ELSE IF c = 2 THEN "O" ELSE ""]],
          1, n)

\* Every connection has been accepted.  Players 1 and 2 have finished MaxGames
\* games, each won by X and each handled to its end, and are in the next one,
\* where X is one move from winning again; nobody holds the lock.
InitLadder ==
  /\ clients = [c \in Conns |-> c]
  /\ players = Ladder(MaxGames)
  /\ games = [g \in 1 .. MaxGames + 1 |->
                IF g <= MaxGames THEN GameWonByX(g) ELSE GameBeforeWin(g)]
  /\ matchmaking = << >>
  /\ mutex = [w |-> None, r |-> {}]
  /\ broadcast = << >>
  /\ pc = [t \in Tasks |-> IF t = BroadcastTask THEN "handleBroadcast" ELSE "read"]
  /\ loc = [t \in Tasks |-> NoLocals]
  /\ closed = {}
  /\ nevents = 0
  /\ out = [t \in Tasks |-> << >>]

LadderSpec == InitLadder /\ [][NextPlay]_vars

Filled(board) == Cardinality({i \in Cells : board[i] # ""})

\* the three rows, the three columns and the two diagonals
Lines == {{0, 1, 2}, {3, 4, 5}, {6, 7, 8}, {0, 3, 6}, {1, 4, 7}, {2, 5, 8}, {0, 4, 8}, {2, 4, 6}}

HasLine(board) == \E l \in Lines : \E sym \in {"X", "O"} : \A i \in l : board[i] = sym

SymbolOf(game, p) == IF p = game.PlayerX THEN "X" ELSE IF p = game.PlayerO THEN "O" ELSE ""

\* C13: in a game of legal moves from the empty board, X first, a winner is
\* reported only with 5 or more moves played, a draw only on a full board with
\* no line of three, and the winner reported by a move is the mover's symbol.
C13_Termination ==
  /\ [](/\ games[1].Winner \in {"X", "O"} => Filled(games[1].Board) >= 5
        /\ games[1].Winner = "draw" =>
              Filled(games[1].Board) = BoardSize /\ ~HasLine(games[1].Board))
  /\ [][\A c \in Conns :
          (EngineStep(c) /\ games'[1].Winner # games[1].Winner /\ games'[1].Winner # "draw") =>
             games'[1].Winner = SymbolOf(games[1], c)]_vars

\* C13's case: X has won with the fifth move of the game
C13_Witness ==
  /\ games[1].Winner = "X"
  /\ Filled(games[1].Board) = 5
  /\ pc[games[1].PlayerX] = "return"

\* a call of MakeMove has written its cell of game g and has not yet switched
\* the turn or finished the game
Moving(g) ==
  \E c \in Conns :
    /\ loc[c].gameID = g
    /\ pc[c] \in {"MakeMove57", "MakeMoveStatus", "MakeMove68"}

C14_Sequential ==
  /\ [](games[1].Status = STATUS_PLAYING =>
          (games[1].CurrentTurn = "X" <=> Filled(games[1].Board) % 2 = 0))
  /\ [][\A c \in Conns :
          (EngineStep(c) /\ loc'[c].data = NoError) =>
             LET old == games[1]
                 new == games'[1]
                 pos == loc'[c].position
                 ends == HasLine(new.Board) \/ Filled(new.Board) = BoardSize
             IN  /\ new.Board[pos] = old.CurrentTurn
                 /\ old.CurrentTurn = SymbolOf(old, c)
                 /\ \A i \in Cells \ {pos} : new.Board[i] = old.Board[i]
                 /\ IF ends
                    THEN new.Status = STATUS_FINISHED /\ new.CurrentTurn = old.CurrentTurn
                    ELSE new.Status = STATUS_PLAYING /\ new.CurrentTurn # old.CurrentTurn
                           /\ new.CurrentTurn \in {"X", "O"}]_vars

\* the make-move handler of connection c has reached broadcastLeaderboard
Broadcasting(c) ==
  \/ pc[c] = "broadcastLeaderboard"
  \/ \E i \in 1 .. Len(out[c]) : out[c][i].kind = "broadcast"

Records == 1 .. NRecords

\* the record of a player with one game behind: above the initial rating after
\* a win, below it after a loss, at it after a draw
PlayedRecord(id, level) ==
  [NewPlayer(id) EXCEPT !.Rating = InitialRating + K * level,
                        !.Wins = IF level > 0 THEN 1 ELSE 0,
                        !.Losses = IF level < 0 THEN 1 ELSE 0,
                        !.Draws = IF level = 0 THEN 1 ELSE 0]

\* NRecords players have connected; those of E have a game on record.  Their
\* ratings follow the identifiers (m = 1) or not (m = 5), all different
\* (r = NRecords) or equal in small groups (r = NRecords \div 2).  The
\* connections of Conns are idle and no game is stored.
InitBoard ==
  /\ clients = [c \in Conns |-> c]
  /\ \E E \in SUBSET Records : \E m \in {1, 5} : \E r \in {NRecords, NRecords \div 2} :
        /\ Cardinality(E) >= TopN - 1
        /\ players = [p \in Records |->
                        IF p \in E THEN PlayedRecord(p, ((p * m) % r) - (r \div 2))
                        ELSE NewPlayer(p)]
  /\ games = << >>
  /\ matchmaking = << >>
  /\ mutex = [w |-> None, r |-> {}]
  /\ broadcast = << >>
  /\ pc = [t \in Tasks |-> IF t = BroadcastTask THEN "handleBroadcast" ELSE "read"]
  /\ loc = [t \in Tasks |-> NoLocals]
  /\ closed = {}
  /\ nevents = 0
  /\ out = [t \in Tasks |-> << >>]

\* gs.getLeaderboard() called for connection c with nothing else running: the
\* slice it returns is kept in loc[c].data
GetLeaderboard(c) ==
  /\ \A t \in Conns : pc[t] = "read"
  /\ CanRLock
  /\ \E lb \in Leaderboards(players) :
        loc' = [loc EXCEPT ![c] = [NoLocals EXCEPT !.type = MSG_LEADERBOARD, !.data = lb]]
  /\ pc' = [pc EXCEPT ![c] = "return"]
  /\ UNCHANGED <<clients, players, games, matchmaking, mutex, broadcast, closed, nevents, out>>

NextBoard == \E c \in Conns : GetLeaderboard(c) \/ Return(c)

BoardSpec == InitBoard /\ [][NextBoard]_vars

Decisions(p) == players[p].Wins + players[p].Losses + players[p].Draws

\* C16: a leaderboard returned by getLeaderboard lists only players of the
\* player map with a game on record, at most 10 of them, no rating rising
\* along the list, and no player with a game on record who is left out has a
\* rating above that of a listed one.
C16_Leaderboard ==
  \A c \in Conns :
    (pc[c] = "return" /\ loc[c].type = MSG_LEADERBOARD) =>
       LET lb == loc[c].data
           listed == {lb[i] : i \in 1 .. Len(lb)}
       IN  /\ \A p \in listed : p \in DOMAIN players /\ Decisions(p) > 0
           /\ Len(lb) <= 10
           /\ \A i, j \in 1 .. Len(lb) : i < j => players[lb[i]].Rating >= players[lb[j]].Rating
           /\ \A p \in DOMAIN players \ listed :
                 Decisions(p) > 0 => \A q \in listed : players[p].Rating <= players[q].Rating

\* C16's case: more than ten players have a game on record, one of them shares
\* the rating of the last place and is left out of the ten returned
C16_Witness ==
  \E c \in Conns :
    /\ pc[c] = "return"
    /\ loc[c].type = MSG_LEADERBOARD
    /\ Len(loc[c].data) = 10
    /\ \E p \in DOMAIN players :
          /\ Decisions(p) > 0
          /\ \A i \in 1 .. 10 : loc[c].data[i] # p
          /\ players[p].Rating = players[loc[c].data[10]].Rating

\* the step in which handleDisconnect runs for connection c
DisconnectStep(c) == pc[c] = "handleDisconnect" /\ pc'[c] = "gone"

\* what a disconnect does to the registry and the waiting list and what it
\* leaves alone, the player records apart
DisconnectFrame(c) ==
  /\ c \in DOMAIN clients
  /\ DOMAIN clients' = DOMAIN clients \ {c}
  /\ \A k \in DOMAIN clients' : clients'[k] = clients[k]
  /\ matchmaking' = SelectSeq(matchmaking, LAMBDA id : id # clients[c])
  /\ DOMAIN players' = DOMAIN players
  /\ games' = games
  /\ broadcast' = broadcast

\* a connection that is gone takes no further step
GoneForGood ==
  \A c \in Conns :
    pc[c] = "gone" => pc'[c] = "gone" /\ loc'[c] = loc[c] /\ out'[c] = out[c]

\* every waiting identifier is the player of a registered connection
WaitingAreRegistered ==
  \A i \in 1 .. Len(matchmaking) : \E k \in DOMAIN clients : clients[k] = matchmaking[i]

\* C17 as stated: a disconnect removes the connection from the connection map
\* and its player from the waiting list and changes nothing else, no player
\* record and no game; the connection handles no message afterwards; every
\* waiting identifier belongs to a registered connection.
C17_DisconnectChangesNothingElse ==
  /\ [][\A c \in Conns : DisconnectStep(c) => DisconnectFrame(c) /\ players' = players]_vars
  /\ [][GoneForGood]_vars
  /\ []WaitingAreRegistered

\* C17 amended: the same, but the player's record, which stays in the player
\* map with its counters, rating and symbol, gets a new last-seen time.
C17_DisconnectFrame ==
  /\ [][\A c \in Conns :
          DisconnectStep(c) =>
             /\ DisconnectFrame(c)
             /\ \A p \in DOMAIN players :
                   players'[p] = IF p = clients[c]
                                 THEN [players[p] EXCEPT !.LastSeen = players'[p].LastSeen]
                                 ELSE players[p]]_vars
  /\ [][GoneForGood]_vars
  /\ []WaitingAreRegistered

\* C17's case: a player of a game that is still playing has disconnected
C17_Witness ==
  \E c \in Conns : \E g \in DOMAIN games :
    /\ pc[c] = "gone"
    /\ c \notin DOMAIN clients
    /\ c \in PlayersOf(g)
    /\ games[g].Status = STATUS_PLAYING
    /\ c \in DOMAIN players
    /\ players[c].LastSeen = "disconnect"

\* ------------------------------------------------------------ a join during play
\* The registry of InitPlay a little later: connection 3 has joined the queue
\* and waits, and handleMessage of connection 2 has read a join_queue message
\* and released the lock.
InitMidJoin ==
  /\ clients = [c \in Conns |-> c]
  /\ players = [c \in Conns |->
        [NewPlayer(c) EXCEPT !.Symbol = IF c = 1 THEN "X" ELSE IF c = 2 THEN "O" ELSE ""]]
  /\ \E k \in 0 .. Len(Script) : games = (1 :> Played(MatchedGameAs(1, <<1, 2>>), k))
  /\ matchmaking = <<3>>
  /\ mutex = [w |-> None, r |-> {}]
  /\ broadcast = << >>
  /\ pc = [t \in Tasks |-> IF t = BroadcastTask THEN "handleBroadcast"
                            ELSE IF t = 2 THEN "handleJoinQueue" ELSE "read"]
  /\ loc = [t \in Tasks |-> IF t = 2 THEN [NoLocals EXCEPT !.type = MSG_JOIN_QUEUE] ELSE NoLocals]
  /\ closed = {}
  /\ nevents = 0
  /\ out = [t \in Tasks |-> << >>]

\* the steps of connection c's goroutine that wait for nothing from outside: a
\* read on a closed connection returns its error, a read on an open one waits
\* for the peer
Internal(c) ==
  \/ SendLeaderboard(c)
  \/ Return(c)
  \/ HandleJoinQueue(c)
  \/ HandleLeaveQueue(c)
  \/ HandleMakeMove(c)
  \/ SendToPlayer(c)
  \/ SendToClient(c)
  \/ (c \in closed /\ ReadError(c))
  \/ HandleDisconnect(c)
  \/ Engine(c)

\* where every goroutine stands; each step of a goroutine changes it
position == <<pc, loc[BroadcastTask].todo>>

\* the Go scheduler runs every goroutine that can take a step
Fairness ==
  /\ \A c \in Conns : WF_position(Internal(c))
  /\ WF_position(HandleBroadcast \/ HandleBroadcast400)

FairJoinSpec == InitMidJoin /\ [][NextPlay]_vars /\ Fairness

\* the game_update sends handler c has recorded
GameUpdateSends(c) == SelectSeq(out[c], LAMBDA e : e.type = MSG_GAME_UPDATE)

\* some handler's write of a game_update on connection k has failed
FailedUpdate(k) ==
  \E t \in Conns : \E i \in 1 .. Len(out[t]) :
    /\ out[t][i].type = MSG_GAME_UPDATE
    /\ out[t][i].kind = "write"
    /\ out[t][i].conn = k
    /\ ~out[t][i].ok

\* handler c is delivering the game_update of a move it has made
Delivering(c) ==
  \/ pc[c] \in {"sendGameUpdate", "sendGameUpdate297"}
  \/ pc[c] \in {"sendToPlayer", "sendToClient"} /\ loc[c].msg = MSG_GAME_UPDATE

\* C18, the part about the send: while a handler delivers the game_update of
\* its move it changes no game and no player record, whatever the writes
\* return; when the delivery is over it has made exactly one attempt for X and
\* then one for O, failed, dropped or not; a connection whose write failed is
\* closed.
C18_SendsSurviveFailure ==
  /\ [][\A c \in Conns :
          Delivering(c) /\ pc'[c] # pc[c] => games' = games /\ players' = players]_vars
  /\ [](\A c \in Conns :
          pc[c] = "handleMakeMove279" =>
            LET s == GameUpdateSends(c)
                game == games[loc[c].gameID]
            IN  /\ Len(s) = 2
                /\ s[1].to = game.PlayerX
                /\ s[2].to = game.PlayerO)
  /\ [](\A t \in Conns : \A i \in 1 .. Len(out[t]) :
          out[t][i].kind = "write" /\ ~out[t][i].ok => out[t][i].conn \in closed)

FairSpec == Spec /\ Fairness

\* C19: match creation never deadlocks: the handleJoinQueue call that runs
\* createMatch and holds the registry write lock eventually returns and
\* releases it, so that whoever needs the lock later eventually gets it.
C19_MatchCreationReturns ==
  \A c \in Conns : (mutex.w = c) ~> (mutex.w # c)

RECURSIVE SumOver(_, _)
SumOver(f, S) ==
  IF S = {} THEN 0
  ELSE LET p == CHOOSE q \in S : TRUE IN f[p] + SumOver(f, S \ {p})

\* a call of MakeMove has incremented a counter for game g and has not yet
\* added both rating changes
CounterAheadOfRating(g) ==
  \E c \in Conns :
    /\ loc[c].gameID = g
    /\ pc[c] \in {"updatePlayerStats2", "updateRating134", "updateRating139", "updateRating140"}

====
